---- MODULE Spec2Model ----
(***************************************************************************)
(* Model of the `cartesian` package: free-space and periodic (minimum      *)
(* image) distances between N-dimensional points, periodic box sides, and  *)
(* the re-imaging of a set of points (`shift_points_together`).            *)
(*                                                                         *)
(* Numbers.  Coordinates, separations and side lengths are fixed-point     *)
(* numbers: the integer v stands for v / Unit, so with Unit = 10 the       *)
(* integer 8 is the coordinate 0.8 and a squared distance of 16 is 0.16.   *)
(* Arithmetic is exact: the rounding of binary64 is not part of the model. *)
(*                                                                         *)
(* Every function of the package is pure, so the state is the call frame:  *)
(* the box the caller has constructed, the call being made and what it     *)
(* returned (a value, the NotImplemented singleton, or a raised exception).*)
(***************************************************************************)
EXTENDS Integers, Sequences, FiniteSets, TLC

VARIABLES
    box,    \* the PeriodicBoxSides object the caller holds (its _coords), or NoBox
    call,   \* the function last called, with its arguments
    ret     \* what that call returned or raised

vars == <<box, call, ret>>

----------------------------------------------------------------------------
(* Bounds of the model *)

\* separations handed to _periodic_modulus_pairdist range over -MaxSep..MaxSep
MaxSep == 22
\* side lengths handed to _periodic_modulus_pairdist range over 1..MaxSide (and Unit)
MaxSide == 4
\* coordinates of the points handed to the distance functions: -MaxCoord..MaxCoord
MaxCoord == 2
\* side lengths offered to the box constructor: -1..MaxBoxSide
MaxBoxSide == 3

\* coordinates of the points handed to shift_points_together: 0..MaxShiftCoord
MaxShiftCoord == 2
\* shift_points_together is handed sequences of 0..MaxPoints points
MaxPoints == 2

\* tolerances handed to approx_eq and periodic_approx_eq: 0..MaxTol
MaxTol == 2

\* whole-cell translations of a point: -MaxCells..MaxCells boxes along each axis
MaxCells == 2

\* the fixed-point scale: the side length 1.0 of the tests is Unit
Unit == 10

\* Cartesian1D and Cartesian2D, PeriodicBoxSides1D and PeriodicBoxSides2D
Dims == {1, 2}

----------------------------------------------------------------------------
(* Values a call can produce *)

NoBox == <<>>

\* a number
Value(v) == [kind |-> "value", value |-> v]

\* a PeriodicBoxSides object with these _coords
BoxValue(coords) == [kind |-> "value", coords |-> coords]

\* a sequence of points
PointsValue(points) == [kind |-> "value", points |-> points]

\* a point
PointValue(point) == [kind |-> "value", point |-> point]

NotImplemented == [kind |-> "NotImplemented"]

Raise(exc, msg) == [kind |-> "raise", exc |-> exc, msg |-> msg]

\* a bool
BoolValue(truth) == [kind |-> "value", truth |-> truth]

\* math.sqrt of a squared length: the number whose square it is, kept symbolic
Sqrt(v) == [kind |-> "value", sqrt_of |-> v]

----------------------------------------------------------------------------
(* Arithmetic helpers *)

\* abs()
Abs(x) == IF x < 0 THEN -x ELSE x

\* math.copysign(1, x)
Copysign1(x) == IF x < 0 THEN -1 ELSE 1

\* math.ceil(num / den) for den > 0
Ceil(num, den) == -((-num) \div den)

\* sum(...) over a sequence of numbers
RECURSIVE SumFirst(_, _)
SumFirst(seq, n) == IF n = 0 THEN 0 ELSE SumFirst(seq, n - 1) + seq[n]

SumSeq(seq) == SumFirst(seq, Len(seq))

\* zip(a, b, ...) stops at the shortest argument: the indices it yields
ZipLen2(a, b) == IF Len(a) < Len(b) THEN Len(a) ELSE Len(b)

ZipLen3(a, b, c) == ZipLen2(<<>> \o SubSeq(a, 1, ZipLen2(a, b)), c)

----------------------------------------------------------------------------
(* point.py / periodic_box_sides.py: the value types *)

\* CartesianND.n_dims, PeriodicBoxSidesND.n_dims: the number of coordinates
NDims(p) == Len(p)

\* PeriodicBoxSidesND.__init__ rejecting only a side < 0.0
PeriodicBoxSidesInit_Negative(coords) ==
    IF \E i \in 1..Len(coords) : coords[i] < 0
    THEN Raise("ValueError", "All side lengths in the periodic box must be positive.")
    ELSE BoxValue(coords)

\* PeriodicBoxSidesND.__init__: keeps the coordinates, rejects a side <= 0.0
PeriodicBoxSidesInit(coords) ==
    IF \E i \in 1..Len(coords) : coords[i] <= 0
    THEN Raise("ValueError", "All side lengths in the periodic box must be positive.")
    ELSE BoxValue(coords)

----------------------------------------------------------------------------
(* measure.py *)

BoxDimsMsg == "The points and the box must have the same number of dimensions."

\* euclidean_distance_squared
EuclideanDistanceSquared(point0, point1) ==
    IF NDims(point0) # NDims(point1)
    THEN NotImplemented
    ELSE Value(SumSeq([i \in 1..ZipLen2(point0, point1) |->
                          (point0[i] - point1[i]) * (point0[i] - point1[i])]))

\* euclidean_distance
EuclideanDistance(point0, point1) ==
    LET result_distance_sq == EuclideanDistanceSquared(point0, point1)
    IN  IF result_distance_sq.kind = "NotImplemented"
        THEN NotImplemented
        ELSE Sqrt(result_distance_sq.value)

\* euclidean_norm_squared
EuclideanNormSquared(point) ==
    Value(SumSeq([i \in 1..NDims(point) |-> point[i] * point[i]]))

\* _periodic_modulus_pairdist with math.floor in place of math.ceil
PeriodicModulusPairdist_Floor(pair_separation, sidelength) ==
    LET abs_pair_separation == Abs(pair_separation)
    IN  IF 2 * abs_pair_separation > sidelength
        THEN LET sign == Copysign1(pair_separation)
                 n_shifts == (2 * abs_pair_separation - sidelength) \div (2 * sidelength)
                 total_position_shift == sign * n_shifts * sidelength
             IN  pair_separation - total_position_shift
        ELSE pair_separation

\* _periodic_modulus_pairdist with the "- 0.5" of the shift count left out
PeriodicModulusPairdist_NoHalf(pair_separation, sidelength) ==
    LET abs_pair_separation == Abs(pair_separation)
    IN  IF 2 * abs_pair_separation > sidelength
        THEN LET sign == Copysign1(pair_separation)
                 n_shifts == Ceil(abs_pair_separation, sidelength)
                 total_position_shift == sign * n_shifts * sidelength
             IN  pair_separation - total_position_shift
        ELSE pair_separation

\* _periodic_modulus_pairdist shifting always towards the negative side (sign = 1)
PeriodicModulusPairdist_NoSign(pair_separation, sidelength) ==
    LET abs_pair_separation == Abs(pair_separation)
    IN  IF 2 * abs_pair_separation > sidelength
        THEN LET n_shifts == Ceil(2 * abs_pair_separation - sidelength, 2 * sidelength)
                 total_position_shift == n_shifts * sidelength
             IN  pair_separation - total_position_shift
        ELSE pair_separation

\* _periodic_modulus_pairdist shifting by one side at most (n_shifts = 1)
PeriodicModulusPairdist_OneShift(pair_separation, sidelength) ==
    LET abs_pair_separation == Abs(pair_separation)
    IN  IF 2 * abs_pair_separation > sidelength
        THEN LET sign == Copysign1(pair_separation)
                 total_position_shift == sign * sidelength
             IN  pair_separation - total_position_shift
        ELSE pair_separation

\* _periodic_modulus_pairdist; (abs / sidelength) - 0.5 is (2 abs - sidelength) / (2 sidelength)
PeriodicModulusPairdist(pair_separation, sidelength) ==
    LET abs_pair_separation == Abs(pair_separation)
    IN  IF 2 * abs_pair_separation > sidelength
        THEN LET sign == Copysign1(pair_separation)
                 n_shifts == Ceil(2 * abs_pair_separation - sidelength, 2 * sidelength)
                 total_position_shift == sign * n_shifts * sidelength
             IN  pair_separation - total_position_shift
        ELSE pair_separation

\* periodic_euclidean_distance_squared without the minimum-image reduction
PeriodicEuclideanDistanceSquared_NoWrap(point0, point1, b) ==
    IF NDims(point0) # NDims(point1)
    THEN NotImplemented
    ELSE IF NDims(point0) # NDims(b)
    THEN Raise("RuntimeError", BoxDimsMsg)
    ELSE Value(SumSeq([i \in 1..ZipLen3(point0, point1, b) |->
            (point1[i] - point0[i]) * (point1[i] - point0[i])]))

\* periodic_euclidean_distance_squared with the box checked before the points
PeriodicEuclideanDistanceSquared_BoxFirst(point0, point1, b) ==
    IF NDims(point0) # NDims(b)
    THEN Raise("RuntimeError", BoxDimsMsg)
    ELSE IF NDims(point0) # NDims(point1)
    THEN NotImplemented
    ELSE Value(SumSeq([i \in 1..ZipLen3(point0, point1, b) |->
            LET true_pair_separation ==
                    PeriodicModulusPairdist(point1[i] - point0[i], b[i])
            IN  true_pair_separation * true_pair_separation]))

\* periodic_euclidean_distance_squared reducing coord1 as the norm does, not coord1 - coord0
PeriodicEuclideanDistanceSquared_NormLike(point0, point1, b) ==
    IF NDims(point0) # NDims(point1)
    THEN NotImplemented
    ELSE IF NDims(point0) # NDims(b)
    THEN Raise("RuntimeError", BoxDimsMsg)
    ELSE Value(SumSeq([i \in 1..ZipLen3(point0, point1, b) |->
            LET true_pair_separation == PeriodicModulusPairdist(point1[i], b[i])
            IN  true_pair_separation * true_pair_separation]))

\* periodic_euclidean_distance_squared
PeriodicEuclideanDistanceSquared(point0, point1, b) ==
    IF NDims(point0) # NDims(point1)
    THEN NotImplemented
    ELSE IF NDims(point0) # NDims(b)
    THEN Raise("RuntimeError", BoxDimsMsg)
    ELSE Value(SumSeq([i \in 1..ZipLen3(point0, point1, b) |->
            LET true_pair_separation ==
                    PeriodicModulusPairdist(point1[i] - point0[i], b[i])
            IN  true_pair_separation * true_pair_separation]))

\* periodic_euclidean_distance: an exception of the squared distance passes through
PeriodicEuclideanDistance(point0, point1, b) ==
    LET result_distance_sq == PeriodicEuclideanDistanceSquared(point0, point1, b)
    IN  IF result_distance_sq.kind = "NotImplemented"
        THEN NotImplemented
        ELSE IF result_distance_sq.kind = "raise"
        THEN result_distance_sq
        ELSE Sqrt(result_distance_sq.value)

\* periodic_euclidean_norm_squared without the minimum-image reduction
PeriodicEuclideanNormSquared_NoWrap(point, b) ==
    IF NDims(point) # NDims(b)
    THEN Raise("RuntimeError", BoxDimsMsg)
    ELSE Value(SumSeq([i \in 1..ZipLen2(point, b) |-> point[i] * point[i]]))

\* periodic_euclidean_norm_squared without the check of the box's dimensions
PeriodicEuclideanNormSquared_NoCheck(point, b) ==
    Value(SumSeq([i \in 1..ZipLen2(point, b) |->
            LET true_pair_separation == PeriodicModulusPairdist(point[i], b[i])
            IN  true_pair_separation * true_pair_separation]))

\* periodic_euclidean_norm_squared
PeriodicEuclideanNormSquared(point, b) ==
    IF NDims(point) # NDims(b)
    THEN Raise("RuntimeError", BoxDimsMsg)
    ELSE Value(SumSeq([i \in 1..ZipLen2(point, b) |->
            LET true_pair_separation == PeriodicModulusPairdist(point[i], b[i])
            IN  true_pair_separation * true_pair_separation]))

\* periodic_euclidean_norm: an exception of the squared norm passes through
PeriodicEuclideanNorm(point, b) ==
    LET norm_sq == PeriodicEuclideanNormSquared(point, b)
    IN  IF norm_sq.kind = "raise" THEN norm_sq ELSE Sqrt(norm_sq.value)

\* NotImplemented < tol_sq: the comparison of NotImplemented with a float raises
NotComparableMsg == "'<' not supported between instances of 'NotImplementedType' and 'float'"

\* approx_eq: the result of euclidean_distance_squared is compared as it is
ApproxEq(point0, point1, tolerance) ==
    LET dist_sq == EuclideanDistanceSquared(point0, point1)
        tol_sq == tolerance * tolerance
    IN  IF dist_sq.kind = "NotImplemented"
        THEN Raise("TypeError", NotComparableMsg)
        ELSE BoolValue(dist_sq.value < tol_sq)

\* periodic_approx_eq with <= in place of <
PeriodicApproxEq_AtMost(point0, point1, b, tolerance) ==
    LET dist_sq == PeriodicEuclideanDistanceSquared(point0, point1, b)
        tol_sq == tolerance * tolerance
    IN  IF dist_sq.kind = "raise"
        THEN dist_sq
        ELSE IF dist_sq.kind = "NotImplemented"
        THEN Raise("TypeError", NotComparableMsg)
        ELSE BoolValue(dist_sq.value <= tol_sq)

\* periodic_approx_eq: an exception of the squared distance passes through, any
\* other result is compared as it is
PeriodicApproxEq(point0, point1, b, tolerance) ==
    LET dist_sq == PeriodicEuclideanDistanceSquared(point0, point1, b)
        tol_sq == tolerance * tolerance
    IN  IF dist_sq.kind = "raise"
        THEN dist_sq
        ELSE IF dist_sq.kind = "NotImplemented"
        THEN Raise("TypeError", NotComparableMsg)
        ELSE BoolValue(dist_sq.value < tol_sq)

----------------------------------------------------------------------------
(* point.py: arithmetic of points *)

\* CartesianND.origin(n_dims): the point with n_dims zero coordinates
Origin(n_dims) == [i \in 1..n_dims |-> 0]

\* Cartesian1D.__sub__, Cartesian2D.__sub__: a point of another class is not
\* subtracted (NotImplemented, which Python turns into a TypeError)
PointSub(self, other) ==
    IF NDims(self) # NDims(other)
    THEN Raise("TypeError", "unsupported operand type(s) for -")
    ELSE PointValue([i \in 1..NDims(self) |-> self[i] - other[i]])

----------------------------------------------------------------------------
(* operations.py *)

TooFarMsg == "The point is too far from the origin relative to the size of the box."

\* _number_of_box_shifts with math.floor in place of math.ceil
NumberOfBoxShifts_Floor(pair_separation, sidelength) ==
    LET abs_pair_separation == Abs(pair_separation)
    IN  IF 2 * abs_pair_separation > sidelength
        THEN LET sign == Copysign1(pair_separation)
                 n_shifts == (2 * abs_pair_separation - sidelength) \div (2 * sidelength)
             IN  sign * n_shifts
        ELSE 0

\* _number_of_box_shifts
NumberOfBoxShifts(pair_separation, sidelength) ==
    LET abs_pair_separation == Abs(pair_separation)
    IN  IF 2 * abs_pair_separation > sidelength
        THEN LET sign == Copysign1(pair_separation)
                 n_shifts == Ceil(2 * abs_pair_separation - sidelength, 2 * sidelength)
             IN  sign * n_shifts
        ELSE 0

\* _translate_point_near_origin raising as soon as one shift is needed
TranslatePointNearOrigin_AnyShift(point, b, err_if_too_far) ==
    LET zipped == 1..ZipLen2(point, b)
        n_shifts(i) == NumberOfBoxShifts(point[i], b[i])
        too_far == {i \in zipped : err_if_too_far /\ Abs(n_shifts(i)) >= 1}
    IN  IF too_far # {}
        THEN LET i_first == CHOOSE i \in too_far : \A j \in too_far : i <= j
             IN  [kind |-> "raise", exc |-> "RuntimeError", msg |-> TooFarMsg,
                  point |-> point, box |-> b,
                  i_coord |-> i_first - 1, n_shifts |-> n_shifts(i_first)]
        ELSE PointValue([i \in 1..NDims(point) |->
                        IF i \in zipped THEN point[i] - n_shifts(i) * b[i] ELSE 0])

\* _translate_point_near_origin: new_coords starts as n_dims zeros, the loop runs
\* over zip(point.coordinates, box.coordinates) and raises at the first axis
\* that needs more than one shift when err_if_too_far is set
TranslatePointNearOrigin(point, b, err_if_too_far) ==
    LET zipped == 1..ZipLen2(point, b)
        n_shifts(i) == NumberOfBoxShifts(point[i], b[i])
        too_far == {i \in zipped : err_if_too_far /\ Abs(n_shifts(i)) > 1}
    IN  IF too_far # {}
        THEN LET i_first == CHOOSE i \in too_far : \A j \in too_far : i <= j
             IN  [kind |-> "raise", exc |-> "RuntimeError", msg |-> TooFarMsg,
                  point |-> point, box |-> b,
                  i_coord |-> i_first - 1, n_shifts |-> n_shifts(i_first)]
        ELSE PointValue([i \in 1..NDims(point) |->
                        IF i \in zipped THEN point[i] - n_shifts(i) * b[i] ELSE 0])

\* the element of the list comprehension of shift_points_together for one point p
ShiftedPoint(p, point0, b, err_if_too_far) ==
    LET diff == PointSub(p, point0)
    IN  IF diff.kind = "raise"
        THEN diff
        ELSE TranslatePointNearOrigin(diff.point, b, err_if_too_far)

\* the list comprehension of shift_points_together over points[1:]: built point by
\* point, ended by the first point that raises
RECURSIVE ShiftedTail(_, _, _, _)
ShiftedTail(rest, point0, b, err_if_too_far) ==
    IF rest = <<>>
    THEN PointsValue(<<>>)
    ELSE LET first == ShiftedPoint(Head(rest), point0, b, err_if_too_far)
         IN  IF first.kind = "raise"
             THEN first
             ELSE LET others == ShiftedTail(Tail(rest), point0, b, err_if_too_far)
                  IN  IF others.kind = "raise"
                      THEN others
                      ELSE PointsValue(<<first.point>> \o others.points)

\* shift_points_together with the trivial case narrowed to len(points) < 1
ShiftPointsTogether_OnlyEmpty(points, b, err_if_too_far) ==
    IF Len(points) < 1
    THEN PointsValue(points)
    ELSE LET point0 == points[1]
             shifted_tail == ShiftedTail(Tail(points), point0, b, err_if_too_far)
         IN  IF shifted_tail.kind = "raise"
             THEN shifted_tail
             ELSE PointsValue(<<Origin(NDims(point0))>> \o shifted_tail.points)

\* shift_points_together
ShiftPointsTogether(points, b, err_if_too_far) ==
    IF Len(points) <= 1
    THEN PointsValue(points)
    ELSE LET point0 == points[1]
             shifted_tail == ShiftedTail(Tail(points), point0, b, err_if_too_far)
         IN  IF shifted_tail.kind = "raise"
             THEN shifted_tail
             ELSE PointsValue(<<Origin(NDims(point0))>> \o shifted_tail.points)

----------------------------------------------------------------------------
(* The inputs the callers draw from *)

Seps == (-MaxSep)..MaxSep

Sides == (1..MaxSide) \cup {Unit}

\* the sequences of exactly n elements of S
RECURSIVE SeqsOfLen(_, _)
SeqsOfLen(S, n) ==
    IF n = 0 THEN {<<>>} ELSE {Append(seq, x) : seq \in SeqsOfLen(S, n - 1), x \in S}

\* the grid points, and the two points of test_periodic_euclidean_distance
Points == UNION {SeqsOfLen((-MaxCoord)..MaxCoord, d) : d \in Dims} \cup {<<2>>, <<8>>}

\* arguments offered to the box constructors, zero and negative sides among them
BoxArgs == UNION {SeqsOfLen((-1)..MaxBoxSide, d) : d \in Dims} \cup {<<Unit>>, <<Unit, Unit>>}

Tolerances == 0..MaxTol

ShiftPoints == UNION {SeqsOfLen(0..MaxShiftCoord, d) : d \in Dims}

\* the sequences of Test_shift_points_together, in tenths
TestShiftBasic == << <<1, 1>>, <<5, 1>>, <<5, 9>> >>

TestShiftTooFar == << <<1, 1>>, <<5, 1>>, <<5, 19>> >>

\* the same sequence with the last point exactly 1.5 sides of 1.0 from the first
TestShiftEdge == << <<1, 1>>, <<5, 1>>, <<5, 16>> >>

PointSeqs ==
    UNION {SeqsOfLen(ShiftPoints, n) : n \in 0..MaxPoints} \cup {TestShiftBasic, TestShiftTooFar, TestShiftEdge}

----------------------------------------------------------------------------
(* Actions: one per function of the package a caller can call *)

NoCall == [fn |-> "none"]

NoResult == [kind |-> "none"]

\* the caller is between two calls
Idle == call = NoCall

Init ==
    /\ box = NoBox
    /\ call = NoCall
    /\ ret = NoResult

\* box = PeriodicBoxSides1D(x) or PeriodicBoxSides2D(x, y); a raise leaves no new box
ConstructBox ==
    /\ Idle
    /\ \E coords \in BoxArgs :
        LET r == PeriodicBoxSidesInit(coords)
        IN  /\ call' = [fn |-> "PeriodicBoxSides", coords |-> coords]
            /\ ret' = r
            /\ box' = IF r.kind = "value" THEN r.coords ELSE box

\* _periodic_modulus_pairdist(x, s)
CallModulus ==
    /\ Idle
    /\ \E x \in Seps, s \in Sides :
        /\ call' = [fn |-> "_periodic_modulus_pairdist", pair_separation |-> x,
                    sidelength |-> s, applications |-> 1, original |-> x]
        /\ ret' = Value(PeriodicModulusPairdist(x, s))
        /\ UNCHANGED box

\* _periodic_modulus_pairdist applied to its own result, same side length
CallModulusAgain ==
    /\ call.fn = "_periodic_modulus_pairdist"
    /\ call.applications = 1
    /\ call' = [call EXCEPT !.pair_separation = ret.value, !.applications = 2]
    /\ ret' = Value(PeriodicModulusPairdist(ret.value, call.sidelength))
    /\ UNCHANGED box

CallEuclideanDistanceSquared ==
    /\ Idle
    /\ \E p0 \in Points, p1 \in Points :
        /\ call' = [fn |-> "euclidean_distance_squared", point0 |-> p0, point1 |-> p1]
        /\ ret' = EuclideanDistanceSquared(p0, p1)
        /\ UNCHANGED box

CallEuclideanDistance ==
    /\ Idle
    /\ \E p0 \in Points, p1 \in Points :
        /\ call' = [fn |-> "euclidean_distance", point0 |-> p0, point1 |-> p1]
        /\ ret' = EuclideanDistance(p0, p1)
        /\ UNCHANGED box

CallPeriodicEuclideanDistanceSquared ==
    /\ Idle
    /\ box # NoBox
    /\ \E p0 \in Points, p1 \in Points :
        /\ call' = [fn |-> "periodic_euclidean_distance_squared",
                    point0 |-> p0, point1 |-> p1]
        /\ ret' = PeriodicEuclideanDistanceSquared(p0, p1, box)
        /\ UNCHANGED box

CallPeriodicEuclideanDistance ==
    /\ Idle
    /\ box # NoBox
    /\ \E p0 \in Points, p1 \in Points :
        /\ call' = [fn |-> "periodic_euclidean_distance", point0 |-> p0, point1 |-> p1]
        /\ ret' = PeriodicEuclideanDistance(p0, p1, box)
        /\ UNCHANGED box

CallPeriodicEuclideanNormSquared ==
    /\ Idle
    /\ box # NoBox
    /\ \E p \in Points :
        /\ call' = [fn |-> "periodic_euclidean_norm_squared", point |-> p]
        /\ ret' = PeriodicEuclideanNormSquared(p, box)
        /\ UNCHANGED box

CallPeriodicEuclideanNorm ==
    /\ Idle
    /\ box # NoBox
    /\ \E p \in Points :
        /\ call' = [fn |-> "periodic_euclidean_norm", point |-> p]
        /\ ret' = PeriodicEuclideanNorm(p, box)
        /\ UNCHANGED box

CallApproxEq ==
    /\ Idle
    /\ \E p0 \in Points, p1 \in Points, tolerance \in Tolerances :
        /\ call' = [fn |-> "approx_eq", point0 |-> p0, point1 |-> p1,
                    tolerance |-> tolerance]
        /\ ret' = ApproxEq(p0, p1, tolerance)
        /\ UNCHANGED box

CallPeriodicApproxEq ==
    /\ Idle
    /\ box # NoBox
    /\ \E p0 \in Points, p1 \in Points, tolerance \in Tolerances :
        /\ call' = [fn |-> "periodic_approx_eq", point0 |-> p0, point1 |-> p1,
                    tolerance |-> tolerance]
        /\ ret' = PeriodicApproxEq(p0, p1, box, tolerance)
        /\ UNCHANGED box

CallShiftPointsTogether ==
    /\ Idle
    /\ box # NoBox
    /\ \E points \in PointSeqs, err_if_too_far \in BOOLEAN :
        /\ call' = [fn |-> "shift_points_together", points |-> points,
                    err_if_too_far |-> err_if_too_far]
        /\ ret' = ShiftPointsTogether(points, box, err_if_too_far)
        /\ UNCHANGED box

\* the caller drops the result and goes on; the box it holds stays
Done ==
    /\ ~Idle
    /\ call' = NoCall
    /\ ret' = NoResult
    /\ UNCHANGED box

Next ==
    \/ Done
    \/ ConstructBox
    \/ CallModulus
    \/ CallModulusAgain
    \/ CallEuclideanDistanceSquared
    \/ CallEuclideanDistance
    \/ CallPeriodicEuclideanDistanceSquared
    \/ CallPeriodicEuclideanDistance
    \/ CallPeriodicEuclideanNormSquared
    \/ CallPeriodicEuclideanNorm
    \/ CallApproxEq
    \/ CallPeriodicApproxEq
    \/ CallShiftPointsTogether

Spec == Init /\ [][Next]_vars

----------------------------------------------------------------------------
(* Claims about _periodic_modulus_pairdist *)

InModulus == call.fn = "_periodic_modulus_pairdist"

\* C1: for every side s > 0 and every separation x, the reduced separation r
\* lies in the half-open interval -s/2 < r <= s/2.
C1_HalfOpenInterval ==
    InModulus =>
        /\ -call.sidelength < 2 * ret.value
        /\ 2 * ret.value <= call.sidelength

\* C2: the reduced separation differs from x by a whole multiple of s, and is
\* x - sign(x) * n * s with n the least integer >= |x|/s - 1/2 when 2|x| > s,
\* and x itself otherwise.
C2_CongruentClosedForm ==
    InModulus =>
        LET x == call.pair_separation
            s == call.sidelength
            r == ret.value
        IN  /\ \E k \in (-(MaxSep + 1))..(MaxSep + 1) : r = x - k * s
            /\ 2 * Abs(x) <= s => r = x
            /\ 2 * Abs(x) > s =>
                  \E n \in 0..(MaxSep + 1) :
                      /\ 2 * s * (n - 1) < 2 * Abs(x) - s
                      /\ 2 * Abs(x) - s <= 2 * s * n
                      /\ r = x - Copysign1(x) * n * s

\* the multi-wrap case of the tests: 2.2 under a side of 1.0 is reduced to 0.2
C2_Witness ==
    /\ InModulus
    /\ call.pair_separation = 22
    /\ call.sidelength = Unit
    /\ ret.value = 2

\* C3: a separation that is an odd multiple of s/2, of either sign, is reduced
\* to exactly +s/2, and a separation of 0 is reduced to 0.
C3_BoundaryToPlusHalf ==
    InModulus =>
        /\ (2 * Abs(call.pair_separation)) % (2 * call.sidelength) = call.sidelength
              => 2 * ret.value = call.sidelength
        /\ call.pair_separation = 0 => ret.value = 0

----------------------------------------------------------------------------
(* Claims about the distances and norms of measure.py *)

\* the free-space squared distance from point0 to point1 moved by shift[i] boxes along axis i
ImageDistanceSquared(point0, point1, b, shift) ==
    SumSeq([i \in 1..Len(point0) |->
               (point1[i] + shift[i] * b[i] - point0[i])
             * (point1[i] + shift[i] * b[i] - point0[i])])

\* the periodic images of point1 around point0: a side is at least 1, so an image
\* more than |separation| + 1 boxes away along an axis is farther than the one before it
ImageShifts(point0, point1) ==
    LET farthest == SumSeq([i \in 1..Len(point0) |-> Abs(point1[i] - point0[i])]) + 1
    IN  {shift \in [1..Len(point0) -> (-farthest)..farthest] :
            \A i \in 1..Len(point0) : Abs(shift[i]) <= Abs(point1[i] - point0[i]) + 1}

\* C5: the periodic squared distance is the sum over the axes of the squared
\* reduced separation of point1[i] - point0[i] under box[i], and that is the
\* smallest free-space squared distance from point0 to a periodic image of point1.
C5_SmallestImageDistance ==
    (call.fn = "periodic_euclidean_distance_squared" /\ ret.kind = "value") =>
        LET p0 == call.point0
            p1 == call.point1
        IN  /\ ret.value = SumSeq([i \in 1..Len(p0) |->
                    PeriodicModulusPairdist(p1[i] - p0[i], box[i])
                  * PeriodicModulusPairdist(p1[i] - p0[i], box[i])])
            /\ \A shift \in ImageShifts(p0, p1) :
                    ret.value <= ImageDistanceSquared(p0, p1, box, shift)
            /\ \E shift \in ImageShifts(p0, p1) :
                    ret.value = ImageDistanceSquared(p0, p1, box, shift)

\* positions 0.2 and 0.8 in a box of side 1.0: squared distance 0.16
C5_Witness ==
    /\ call.fn = "periodic_euclidean_distance_squared"
    /\ call.point0 = <<2>>
    /\ call.point1 = <<8>>
    /\ box = <<Unit>>
    /\ ret = Value(16)

TwoPointCalls ==
    {"euclidean_distance_squared", "euclidean_distance",
     "periodic_euclidean_distance_squared", "periodic_euclidean_distance"}

\* C6: the four distance functions, handed two points of different
\* dimensionality, return NotImplemented and do not raise, whatever the box.
C6_PointMismatchSoft ==
    (call.fn \in TwoPointCalls /\ NDims(call.point0) # NDims(call.point1)) =>
        ret = NotImplemented

\* a 1-D and a 2-D point under a 2-D box: the periodic distance is NotImplemented
C6_Witness ==
    /\ call.fn = "periodic_euclidean_distance"
    /\ NDims(call.point0) = 1
    /\ NDims(call.point1) = 2
    /\ NDims(box) = 2
    /\ ret = NotImplemented

RaisedBoxDims ==
    /\ ret.kind = "raise"
    /\ ret.exc = "RuntimeError"
    /\ ret.msg = "The points and the box must have the same number of dimensions."

\* C7: with points of equal dimensionality and a box of another dimensionality,
\* the periodic distances and norms raise RuntimeError with the message
\* "The points and the box must have the same number of dimensions.".
C7_BoxMismatchHard ==
    /\ (/\ call.fn \in {"periodic_euclidean_distance_squared", "periodic_euclidean_distance"}
        /\ NDims(call.point0) = NDims(call.point1)
        /\ NDims(call.point0) # NDims(box)) => RaisedBoxDims
    /\ (/\ call.fn \in {"periodic_euclidean_norm_squared", "periodic_euclidean_norm"}
        /\ NDims(call.point) # NDims(box)) => RaisedBoxDims

\* a 1-D point under a 2-D box: the periodic norm raises
C7_Witness ==
    /\ call.fn = "periodic_euclidean_norm"
    /\ NDims(call.point) = 1
    /\ NDims(box) = 2
    /\ RaisedBoxDims

\* C8: the periodic squared distance from a point to itself is exactly 0.
C8_SelfDistanceZero ==
    (/\ call.fn = "periodic_euclidean_distance_squared"
     /\ call.point0 = call.point1
     /\ NDims(call.point0) = NDims(box)) => ret = Value(0)

\* a point away from the origin, in a box of its dimensionality
C8_Witness ==
    /\ call.fn = "periodic_euclidean_distance_squared"
    /\ call.point0 = <<1, -1>>
    /\ call.point1 = <<1, -1>>
    /\ box = <<2, 3>>
    /\ ret = Value(0)

\* C15: for a point and a box of the same dimensionality, the periodic squared
\* norm of the point equals the periodic squared distance between the origin
\* and the point, with the two in either order.
C15_NormIsDistanceToOrigin ==
    /\ (call.fn = "periodic_euclidean_norm_squared" /\ NDims(call.point) = NDims(box)) =>
          LET origin == Origin(NDims(call.point))
          IN  /\ ret.kind = "value"
              /\ ret = PeriodicEuclideanDistanceSquared(origin, call.point, box)
              /\ ret = PeriodicEuclideanDistanceSquared(call.point, origin, box)
    /\ (call.fn = "periodic_euclidean_norm" /\ NDims(call.point) = NDims(box)) =>
          LET origin == Origin(NDims(call.point))
          IN  /\ ret.kind = "value"
              /\ ret = PeriodicEuclideanDistance(origin, call.point, box)
              /\ ret = PeriodicEuclideanDistance(call.point, origin, box)

\* (0.2, -0.2) in a box of sides 0.3 is reduced to (-0.1, 0.1): squared norm 0.02
C15_Witness ==
    /\ call.fn = "periodic_euclidean_norm_squared"
    /\ call.point = <<2, -2>>
    /\ box = <<3, 3>>
    /\ ret = Value(2)

\* a periodic squared distance was computed for points of the box's dimensionality
MatchingDistanceCall ==
    /\ call.fn = "periodic_euclidean_distance_squared"
    /\ NDims(call.point0) = NDims(call.point1)
    /\ NDims(call.point0) = NDims(box)

\* C18: the periodic squared distance is the same with the two points
\* exchanged, separations of exactly half a side included.
C18_Symmetric ==
    MatchingDistanceCall =>
        /\ ret.kind = "value"
        /\ ret = PeriodicEuclideanDistanceSquared(call.point1, call.point0, box)

\* 0.0 and 0.1 in a box of side 0.2: the separation is half the side either way
C18_Witness ==
    /\ call.fn = "periodic_euclidean_distance_squared"
    /\ call.point0 = <<0>>
    /\ call.point1 = <<1>>
    /\ box = <<2>>
    /\ ret = Value(1)

\* point moved by cells[i] whole boxes along each axis i
Translated(point, b, cells) == [i \in 1..Len(point) |-> point[i] + cells[i] * b[i]]

\* C19: moving point1 by a whole number of box sides along each axis leaves the
\* periodic squared distance unchanged, and that distance exceeds neither the
\* free-space squared distance nor the sum over the axes of (box[i]/2)^2.
C19_TranslationInvariantBounded ==
    MatchingDistanceCall =>
        /\ ret.kind = "value"
        /\ \A cells \in [1..NDims(box) -> (-MaxCells)..MaxCells] :
              PeriodicEuclideanDistanceSquared(
                  call.point0, Translated(call.point1, box, cells), box) = ret
        /\ ret.value <= EuclideanDistanceSquared(call.point0, call.point1).value
        /\ 4 * ret.value <= SumSeq([i \in 1..NDims(box) |-> box[i] * box[i]])

\* (-0.2, 0.0) and (0.2, 0.1) in a box of sides (0.3, 0.2): squared distance
\* 0.02 periodically, 0.17 in free space
C19_Witness ==
    /\ call.fn = "periodic_euclidean_distance_squared"
    /\ call.point0 = <<-2, 0>>
    /\ call.point1 = <<2, 1>>
    /\ box = <<3, 2>>
    /\ ret = Value(2)

----------------------------------------------------------------------------
(* Claims about PeriodicBoxSides *)

\* C9: constructing a box succeeds only if every side is > 0, a side <= 0 makes
\* it raise ValueError, and so every box that exists has all sides > 0.
C9_BoxSidesPositive ==
    /\ call.fn = "PeriodicBoxSides" =>
          IF \A i \in 1..Len(call.coords) : call.coords[i] > 0
          THEN ret = BoxValue(call.coords) /\ box = call.coords
          ELSE ret.kind = "raise" /\ ret.exc = "ValueError"
    /\ box # NoBox => \A i \in 1..Len(box) : box[i] > 0

\* a box with a side of zero, as in test_periodic_box_invalid, is refused
C9_Witness ==
    /\ call.fn = "PeriodicBoxSides"
    /\ call.coords = <<3, 0>>
    /\ ret.kind = "raise"
    /\ ret.exc = "ValueError"

----------------------------------------------------------------------------
(* Claims about shift_points_together *)

\* C10: for N >= 2 points and a box of their dimensionality, the call returns
\* N points in the same order, the first the origin, and every other one
\* p_k - p_0 with each coordinate i moved by a whole multiple of box[i] into
\* the half-open interval -box[i]/2 < c <= box[i]/2.
C10_ReimagedHalfOpen ==
    (/\ call.fn = "shift_points_together"
     /\ ~call.err_if_too_far
     /\ Len(call.points) >= 2
     /\ \A k \in 1..Len(call.points) : NDims(call.points[k]) = NDims(box)) =>
        /\ ret.kind = "value"
        /\ Len(ret.points) = Len(call.points)
        /\ ret.points[1] = Origin(NDims(box))
        /\ \A k \in 2..Len(call.points) :
              /\ NDims(ret.points[k]) = NDims(box)
              /\ \A i \in 1..NDims(box) :
                    LET sep == call.points[k][i] - call.points[1][i]
                        out == ret.points[k][i]
                    IN  /\ \E m \in (-(Abs(sep) + 1))..(Abs(sep) + 1) : out = sep - m * box[i]
                        /\ -box[i] < 2 * out
                        /\ 2 * out <= box[i]

\* C11: called on 0 or 1 points, shift_points_together returns the sequence it
\* was given, unchanged (a single point is not moved to the origin), and does
\* not raise, whatever err_if_too_far is and whatever the dimensionality of the
\* single point and of the box.
C11_TrivialPassThrough ==
    (call.fn = "shift_points_together" /\ Len(call.points) <= 1) =>
        ret = PointsValue(call.points)

\* a single 2-D point away from the origin, strict mode, under a 1-D box
C11_Witness ==
    /\ call.fn = "shift_points_together"
    /\ call.points = << <<1, 2>> >>
    /\ call.err_if_too_far
    /\ NDims(box) = 1
    /\ ret = PointsValue(<< <<1, 2>> >>)

\* the points are two or more and all of the box's dimensionality
MatchingShiftCall ==
    /\ call.fn = "shift_points_together"
    /\ Len(call.points) >= 2
    /\ \A k \in 1..Len(call.points) : NDims(call.points[k]) = NDims(box)

\* the offset of point k from the first point along axis i
Offset(k, i) == call.points[k][i] - call.points[1][i]

\* some point after the first is more than 1.5 sides from the first along some axis
BeyondOneAndHalf ==
    \E k \in 2..Len(call.points) : \E i \in 1..NDims(box) :
        2 * Abs(Offset(k, i)) > 3 * box[i]

\* sign(sep) * ceil(|sep|/side - 0.5) when 2|sep| > side, by the inequalities
\* that define the ceiling, and 0 otherwise
IsShiftCount(n, sep, side) ==
    IF 2 * Abs(sep) > side
    THEN \E m \in 0..(Abs(sep) + 1) :
            /\ 2 * side * (m - 1) < 2 * Abs(sep) - side
            /\ 2 * Abs(sep) - side <= 2 * side * m
            /\ n = Copysign1(sep) * m
    ELSE n = 0

\* C12: with err_if_too_far set and two or more points, the call raises
\* RuntimeError exactly when some point after the first is, along some axis,
\* more than 1.5 sides from the first point (an offset of exactly 1.5 sides
\* does not raise); with the flag unset the call never raises and every
\* coordinate is the offset less the full shift count times the side.
C12_StrictFailsBeyondOneAndHalf ==
    MatchingShiftCall =>
        IF call.err_if_too_far
        THEN /\ ret.kind = "raise" <=> BeyondOneAndHalf
             /\ ret.kind = "raise" =>
                    /\ ret.exc = "RuntimeError"
                    /\ ret.msg = TooFarMsg
                    /\ Abs(ret.n_shifts) > 1
        ELSE /\ ret.kind = "value"
             /\ \A k \in 2..Len(call.points) : \A i \in 1..NDims(box) :
                    \E n \in (-(Abs(Offset(k, i)) + 1))..(Abs(Offset(k, i)) + 1) :
                        /\ IsShiftCount(n, Offset(k, i), box[i])
                        /\ ret.points[k][i] = Offset(k, i) - n * box[i]

\* test_raises_too_far: a y-offset of 1.8 under a box of sides 1.0 raises, two
\* shifts being needed along coordinate 1
C12_Witness ==
    /\ call.fn = "shift_points_together"
    /\ call.points = TestShiftTooFar
    /\ call.err_if_too_far
    /\ box = <<Unit, Unit>>
    /\ ret.kind = "raise"
    /\ ret.exc = "RuntimeError"
    /\ ret.i_coord = 1
    /\ ret.n_shifts = 2

\* C13: given two or more points whose dimensionality differs from the box's,
\* shift_points_together raises; it does not return a result computed from
\* the shorter of the two coordinate sequences.
C13_ShiftDimMismatchHard ==
    (/\ call.fn = "shift_points_together"
     /\ Len(call.points) >= 2
     /\ \E k \in 1..Len(call.points) : NDims(call.points[k]) # NDims(box)) =>
        ret.kind = "raise"

\* C17: for two or more points of the box's dimensionality, when the call
\* returns (strict mode or not), every coordinate i of output point k is
\* _periodic_modulus_pairdist(p_k[i] - p_0[i], box[i]), and so the free-space
\* squared norm of output point k is the periodic squared distance from p_0 to p_k.
C17_ShiftIsModulus ==
    (MatchingShiftCall /\ ret.kind = "value") =>
        \A k \in 2..Len(call.points) :
            /\ \A i \in 1..NDims(box) :
                  ret.points[k][i] = PeriodicModulusPairdist(Offset(k, i), box[i])
            /\ EuclideanNormSquared(ret.points[k])
                  = PeriodicEuclideanDistanceSquared(call.points[1], call.points[k], box)

\* test_basic_functionality in strict mode: (0.5, 0.9) seen from (0.1, 0.1) in
\* a box of sides 1.0 is moved to (0.4, -0.2)
C17_Witness ==
    /\ call.fn = "shift_points_together"
    /\ call.points = TestShiftBasic
    /\ call.err_if_too_far
    /\ box = <<Unit, Unit>>
    /\ ret = PointsValue(<< <<0, 0>>, <<4, 0>>, <<4, -2>> >>)

----------------------------------------------------------------------------
(* Claims about approx_eq and periodic_approx_eq *)

\* C14: approx_eq is true exactly when the free-space squared distance is
\* strictly less than the squared tolerance, and periodic_approx_eq exactly
\* when the periodic squared distance is; two points exactly the tolerance
\* apart are not approximately equal.
C14_StrictlyWithinTolerance ==
    /\ (call.fn = "approx_eq" /\ NDims(call.point0) = NDims(call.point1)) =>
          LET dist_sq == EuclideanDistanceSquared(call.point0, call.point1).value
          IN  /\ ret = BoolValue(dist_sq < call.tolerance * call.tolerance)
              /\ dist_sq = call.tolerance * call.tolerance => ret = BoolValue(FALSE)
    /\ (/\ call.fn = "periodic_approx_eq"
        /\ NDims(call.point0) = NDims(call.point1)
        /\ NDims(call.point0) = NDims(box)) =>
          LET dist_sq == PeriodicEuclideanDistanceSquared(call.point0, call.point1, box).value
          IN  /\ ret = BoolValue(dist_sq < call.tolerance * call.tolerance)
              /\ dist_sq = call.tolerance * call.tolerance => ret = BoolValue(FALSE)

\* -0.1 and 0.2 in a box of side 0.2 are 0.1 apart periodically, which is the
\* tolerance: not approximately equal
C14_Witness ==
    /\ call.fn = "periodic_approx_eq"
    /\ call.point0 = <<-1>>
    /\ call.point1 = <<2>>
    /\ call.tolerance = 1
    /\ box = <<2>>
    /\ ret = BoolValue(FALSE)

\* C16: approx_eq and periodic_approx_eq, handed two points of different
\* dimensionality, do not raise: they return NotImplemented.
C16_ApproxEqMismatchSoft ==
    (/\ call.fn \in {"approx_eq", "periodic_approx_eq"}
     /\ NDims(call.point0) # NDims(call.point1)) =>
        /\ ret.kind # "raise"
        /\ ret = NotImplemented

====
